---- MODULE Spec2Model ----
(***************************************************************************)
(* Loan application review agent: the LangGraph decision pipeline          *)
(* (agent/graph.py) run by the /agent_review endpoint (agent/agent_api.py),*)
(* its rule engine and policy guard, and the narrative helpers of the      *)
(* agent-review variant (agent/agent_with_llm.py).                         *)
(*                                                                         *)
(* Conventions of the model                                                *)
(*  - A Python value that may be None is a sequence of length 0 (None) or  *)
(*    1 (the value).                                                       *)
(*  - A Python str is a sequence of pieces.  A piece is a TLA+ string that *)
(*    stands for a run of characters; the pieces " " and "\n" are          *)
(*    whitespace, "-" is a hyphen and "*" a bullet character.  "" is <<>>. *)
(*  - Money amounts are integers (units of income); 0.5 * income is        *)
(*    compared as 2 * amount > income.                                     *)
(*  - used_tools is rebuilt with list(set(...)) on every update, so it is  *)
(*    a set.                                                               *)
(***************************************************************************)
EXTENDS Integers, Sequences, FiniteSets, TLC

VARIABLES
    req,          \* state["req"]: the validated application
    disable_llm,  \* graph.DISABLE_LLM (environment flag read at import)
    baseline,     \* state["baseline"]
    kyc,          \* state["kyc"]
    credit,       \* state["credit"]
    similar,      \* state["similar"]
    decision,     \* state["decision"]
    reason,       \* state["reason"]
    used_tools,   \* state["used_tools"]
    errors,       \* state["errors"]
    pc,           \* the node the compiled graph runs next
    trace,        \* the nodes that have returned, in order
    response,     \* what agent_review answered
    db,           \* rows of the decisions table written by this request
    gen_calls,    \* how each call of the generation service ended, in order
    call,         \* one invocation of a pure helper: arguments and result
    rv            \* one invocation of review_application (agent_with_llm.py)

vars == <<req, disable_llm, baseline, kyc, credit, similar, decision, reason,
          used_tools, errors, pc, trace, response, db, gen_calls, call, rv>>

pipeVars == <<req, disable_llm, baseline, kyc, credit, similar, decision,
              reason, used_tools, errors, pc, trace, response, db, gen_calls>>

----------------------------------------------------------------------------
(* Bounds *)

MaxIncome == 1
MaxLoan == 13
MaxHits == 1
MaxRespLen == 2

----------------------------------------------------------------------------
(* Optional values and text *)

None == <<>>
Some(v) == <<v>>
IsNone(o) == o = <<>>
Val(o) == o[1]

WS == {" ", "\n"}

RECURSIVE LStrip(_)
LStrip(t) == IF t # <<>> /\ Head(t) \in WS THEN LStrip(Tail(t)) ELSE t

RECURSIVE RStrip(_)
RStrip(t) ==
    IF t # <<>> /\ t[Len(t)] \in WS THEN RStrip(SubSeq(t, 1, Len(t) - 1)) ELSE t

\* str.strip()
Strip(t) == RStrip(LStrip(t))

RECURSIVE FirstLine(_)
\* str.splitlines()[0] of a non-empty text
FirstLine(t) ==
    IF t = <<>> \/ Head(t) = "\n" THEN <<>> ELSE <<Head(t)>> \o FirstLine(Tail(t))

\* str.replace("\n", " ")
ReplaceNewlines(t) == [i \in 1..Len(t) |-> IF t[i] = "\n" THEN " " ELSE t[i]]

\* str.replace("*", "") for the bullet character
RemoveBullets(t) == SelectSeq(t, LAMBDA p : p # "*")

RECURSIVE RemoveDashSpace(_)
\* str.replace("- ", "")
RemoveDashSpace(t) ==
    IF t = <<>> THEN <<>>
    ELSE IF Len(t) >= 2 /\ t[1] = "-" /\ t[2] = " "
         THEN RemoveDashSpace(SubSeq(t, 3, Len(t)))
         ELSE <<Head(t)>> \o RemoveDashSpace(Tail(t))

RECURSIVE Join(_, _)
\* sep.join(parts), parts a sequence of texts, sep a text
Join(sep, parts) ==
    IF parts = <<>> THEN <<>>
    ELSE IF Len(parts) = 1 THEN parts[1]
    ELSE parts[1] \o sep \o Join(sep, Tail(parts))

IsPrefix(s, t) == Len(s) <= Len(t) /\ SubSeq(t, 1, Len(s)) = s

\* dict.get(key, default) on a dict modelled as a function
Get(d, key, default) == IF key \in DOMAIN d THEN d[key] ELSE default

EmptyDict == <<>>

----------------------------------------------------------------------------
(* Applications *)

Employment ==
    {"employed", "self-employed", "student", "retired", "contract", "unemployed"}

\* the scores on each side of the two thresholds of the rules (validated range
\* 300..900)
CreditScores == {519, 520, 619, 620}

\* a name is the sequence of its characters
Names == { <<"A", "l">>, <<"X", "i">>, <<"T", "E", "S", "T">> }

Requests ==
    [name : Names, income : 0..MaxIncome, employment_status : Employment,
     credit_score : CreditScores, loan_amount : 0..MaxLoan]

Decisions == {"approve", "reject", "manual_review"}

----------------------------------------------------------------------------
(* agent/graph.py: the rule engine *)

ExceedsReason == "Requested amount exceeds 10x annual income."
VeryLowReason == "Very low credit score (<520)."
LowReason == "Low credit score (520-619). Consider manual review."
HighRiskReason == "High risk profile given employment and requested amount."

\* needle in r, for the three needles _rule_based searches for and the four
\* reason strings it can have appended
Contains(r, needle) ==
    \/ needle = "Very low credit score" /\ r = VeryLowReason
    \/ needle = "exceeds 10x" /\ r = ExceedsReason
    \/ needle = "High risk profile" /\ r = HighRiskReason

AnyContains(reasons, needle) ==
    \E i \in 1..Len(reasons) : Contains(reasons[i], needle)

\* Variant: the amount rule uses the guard's threshold of 12 times income.
RuleReasonsTwelveTimes(r) ==
    (IF r.loan_amount > 12 * r.income THEN <<ExceedsReason>> ELSE <<>>)
    \o (IF r.credit_score < 520 THEN <<VeryLowReason>>
        ELSE IF r.credit_score < 620 THEN <<LowReason>> ELSE <<>>)
    \o (IF r.employment_status \in {"student", "unemployed"}
           /\ 2 * r.loan_amount > r.income
        THEN <<HighRiskReason>> ELSE <<>>)

RuleReasons(r) ==
    (IF r.loan_amount > 10 * r.income THEN <<ExceedsReason>> ELSE <<>>)
    \o (IF r.credit_score < 520 THEN <<VeryLowReason>>
        ELSE IF r.credit_score < 620 THEN <<LowReason>> ELSE <<>>)
    \o (IF r.employment_status \in {"student", "unemployed"}
           /\ 2 * r.loan_amount > r.income
        THEN <<HighRiskReason>> ELSE <<>>)

\* Variant: the review outcome is spelled as the other variant spells it.
RuleDecisionFlag(reasons) ==
    IF AnyContains(reasons, "Very low credit score") THEN "reject"
    ELSE IF AnyContains(reasons, "exceeds 10x")
            \/ AnyContains(reasons, "High risk profile")
         THEN "flag"
         ELSE "approve"

\* Variant: the first reason appended decides.
RuleDecisionFirstReason(reasons) ==
    IF reasons = <<>> THEN "approve"
    ELSE IF Contains(reasons[1], "Very low credit score") THEN "reject"
    ELSE IF Contains(reasons[1], "exceeds 10x")
            \/ Contains(reasons[1], "High risk profile")
         THEN "manual_review"
         ELSE "approve"

RuleDecision(reasons) ==
    IF AnyContains(reasons, "Very low credit score") THEN "reject"
    ELSE IF AnyContains(reasons, "exceeds 10x")
            \/ AnyContains(reasons, "High risk profile")
         THEN "manual_review"
         ELSE "approve"

_rule_based(r) ==
    [decision |-> RuleDecision(RuleReasons(r)), reasons |-> RuleReasons(r)]

----------------------------------------------------------------------------
(* agent/graph.py: the policy guard *)

\* Variant: the guard decides again from the signals, in both directions.
PolicyGuardRedecide(d, r, k) ==
    IF (~Get(k, "kyc_verified", FALSE)) \/ Get(k, "pep_match", FALSE)
       \/ r.credit_score < 520 \/ r.loan_amount > 12 * r.income
    THEN (IF d = "approve" THEN "manual_review" ELSE d)
    ELSE (IF d = "manual_review" THEN "approve" ELSE d)

\* Variant: the guard uses the rule engine's 10x threshold.
PolicyGuardTenTimes(d, r, k) ==
    IF d = "approve"
    THEN IF (~Get(k, "kyc_verified", FALSE)) \/ Get(k, "pep_match", FALSE)
         THEN "manual_review"
         ELSE IF r.credit_score < 520 \/ r.loan_amount > 10 * r.income
              THEN "manual_review"
              ELSE d
    ELSE d

_policy_guard(d, r, k) ==
    IF d = "approve"
    THEN IF (~Get(k, "kyc_verified", FALSE)) \/ Get(k, "pep_match", FALSE)
         THEN "manual_review"
         ELSE IF r.credit_score < 520 \/ r.loan_amount > 12 * r.income
              THEN "manual_review"
              ELSE d
    ELSE d

----------------------------------------------------------------------------
(* agent/graph.py: the reason paragraph *)

\* decision.replace('_', ' ')
DecisionWords(d) == IF d = "manual_review" THEN "manual review" ELSE d

\* round(amt / max(1.0, inc), 2) in hundredths, ties to even
DtiHundredths(amt, inc) ==
    LET q == (100 * amt) \div inc
        r == (100 * amt) % inc
    IN  IF 2 * r < inc THEN q
        ELSE IF 2 * r > inc THEN q + 1
        ELSE IF q % 2 = 0 THEN q ELSE q + 1

\* ctx_bits: credit score, income and amount are never None for a validated
\* application; the ratio is there when income > 0
CtxBits(r) ==
    << <<"credit score " \o ToString(r.credit_score)>>,
       <<"monthly income " \o ToString(r.income)>>,
       <<"requested amount " \o ToString(r.loan_amount)>> >>
    \o (IF r.income > 0
        THEN << <<"amount-to-income ratio ~ "
                  \o ToString(DtiHundredths(r.loan_amount, r.income)) \o "/100">> >>
        ELSE <<>>)

NextStep(d) ==
    IF d = "approve"
    THEN "You can proceed to sign the agreement and upload any required KYC documents."
    ELSE IF d = "reject"
    THEN "You may reapply after improving your credit profile or adjusting the requested amount."
    ELSE "Our team will review your case and may request more documents."

\* base is the baseline dict (possibly {}), short_reason a text
_format_reason_paragraph(r, d, short_reason, base) ==
    LET base_reasons == Get(base, "reasons", <<>>)
        opening ==
            Strip(<<"We decided to", " ", DecisionWords(d), " ",
                    "this application.", " ">> \o Strip(short_reason))
        factors ==
            <<"Key factors considered include", " ">>
            \o Join(<<", ">>, CtxBits(r)) \o <<".">>
        notes ==
            <<"Rules check notes:", " ">>
            \o Join(<<"; ">>, [i \in 1..Len(base_reasons) |-> <<base_reasons[i]>>])
            \o <<".">>
        parts ==
            <<opening, factors>>
            \o (IF base_reasons # <<>> THEN <<notes>> ELSE <<>>)
        paragraph ==
            Strip(RemoveDashSpace(RemoveBullets(ReplaceNewlines(
                Join(<<" ">>, parts)))))
    IN  paragraph \o <<"\n", "Next step:", " ", NextStep(d)>>

----------------------------------------------------------------------------
(* tools.py: the mock lookups *)

UpperLetters ==
    <<"A", "B", "C", "D", "E", "F", "G", "H", "I", "J", "K", "L", "M",
      "N", "O", "P", "Q", "R", "S", "T", "U", "V", "W", "X", "Y", "Z">>

LowerLetters ==
    <<"a", "b", "c", "d", "e", "f", "g", "h", "i", "j", "k", "l", "m",
      "n", "o", "p", "q", "r", "s", "t", "u", "v", "w", "x", "y", "z">>

IndexIn(seq, c) == CHOOSE i \in 1..Len(seq) : seq[i] = c

IsUpper(c) == \E i \in 1..Len(UpperLetters) : UpperLetters[i] = c

\* str.lower() on one character
LowerChar(c) == IF IsUpper(c) THEN LowerLetters[IndexIn(UpperLetters, c)] ELSE c

Lower(s) == [i \in 1..Len(s) |-> LowerChar(s[i])]

\* ord(c) for an ASCII letter
Ord(c) ==
    IF IsUpper(c) THEN 64 + IndexIn(UpperLetters, c)
    ELSE 96 + IndexIn(LowerLetters, c)

RECURSIVE OrdSum(_)
OrdSum(s) == IF s = <<>> THEN 0 ELSE Ord(Head(s)) + OrdSum(Tail(s))

FlagPrefixes == { <<"x">>, <<"t", "e", "s", "t">>, <<"f", "a", "k", "e">> }

\* Variant: the prefixes are compared without lowering the identity string.
FlaggedCaseSensitive(customer_id) == \E p \in FlagPrefixes : IsPrefix(p, customer_id)

Flagged(customer_id) == \E p \in FlagPrefixes : IsPrefix(p, Lower(customer_id))

kyc_tool(customer_id) ==
    [customer_id |-> customer_id,
     kyc_verified |-> ~Flagged(customer_id),
     pep_match |-> Flagged(customer_id),
     doc_expired |-> FALSE]

\* utilization is kept in hundredths
credit_tool(customer_id) ==
    LET base == OrdSum(customer_id) % 100
        u == 20 + (base % 40)
    IN  [customer_id |-> customer_id,
         delinquencies_12mo |-> base % 3,
         utilization |-> IF u < 100 THEN u ELSE 100,
         recent_hard_pulls |-> base % 2]

----------------------------------------------------------------------------
(* Collaborators: what each can answer *)

\* str(e) of the exception a lookup raises
ToolErrors == {"timeout"}

\* similarity_memory.similar_cases swallows every exception of the store and
\* returns []; otherwise it returns the store's hits, langchain Document
\* objects (read as d.page_content in agent_with_llm.py), at most k = 3.
Document == [page_content |-> <<"case">>]

SimilarResults == UNION {[1..n -> {Document}] : n \in 0..MaxHits}

\* the "response" field of the generation service's JSON answer
RespPieces == {"w", " ", "\n"}

RawResponses == UNION {[1..n -> RespPieces] : n \in 0..MaxRespLen}

\* _ollama_once: None on any exception (connection, timeout, HTTP status),
\* else the stripped response text
_ollama_once(outcome) ==
    IF outcome.ok THEN Some(Strip(outcome.text)) ELSE None

LlmOutcomes ==
    {[ok |-> FALSE, text |-> <<>>]} \cup {[ok |-> TRUE, text |-> t] : t \in RawResponses}

----------------------------------------------------------------------------
(* agent/graph.py: the nodes *)

GenericShortReason == "Based on policy and the provided numbers."
GuardSentence == "Policy guard adjusted the outcome based on KYC and risk thresholds."

\* x or {} for an optional dict
OrEmpty(o) == IF IsNone(o) THEN EmptyDict ELSE Val(o)

\* x or "manual_review" for an optional decision string
OrManual(o) == IF IsNone(o) \/ o = Some("") THEN "manual_review" ELSE Val(o)

RulesTags(tags) == tags \cup {"rules"}

node_rules ==
    /\ pc = "rules"
    /\ baseline' = Some(_rule_based(req))
    /\ used_tools' = RulesTags(used_tools)
    /\ pc' = "tools"
    /\ trace' = Append(trace, "rules")
    /\ UNCHANGED <<req, disable_llm, kyc, credit, similar, decision, reason,
                   errors, response, db, gen_calls, call, rv>>

\* errors after the kyc lookup raised e
KycError(errs, e) == Append(errs, "kyc_tool: " \o e)

\* errors after the credit lookup raised e
CreditError(errs, e) == Append(errs, "credit_tool: " \o e)

\* Variant: one try block around both lookups, so a failing identity lookup
\* skips the credit lookup.
node_tools_single_try ==
    /\ pc = "tools"
    /\ \E kycOk \in BOOLEAN, creditOk \in BOOLEAN, e \in ToolErrors :
          IF ~kycOk
          THEN /\ errors' = Append(errors, "kyc_tool: " \o e)
               /\ UNCHANGED <<kyc, credit, used_tools>>
          ELSE /\ kyc' = Some(kyc_tool(req.name))
               /\ credit' = IF creditOk THEN Some(credit_tool(req.name)) ELSE credit
               /\ used_tools' = used_tools \cup {"kyc_tool"}
                                 \cup (IF creditOk THEN {"credit_tool"} ELSE {})
               /\ errors' = IF creditOk THEN errors
                             ELSE Append(errors, "credit_tool: " \o e)
    /\ pc' = "memory"
    /\ trace' = Append(trace, "tools")
    /\ UNCHANGED <<req, disable_llm, baseline, similar, decision, reason,
                   response, db, gen_calls, call, rv>>

\* The lookups are local mocks today and stand for real service calls: each
\* either returns its result or raises.
node_tools ==
    /\ pc = "tools"
    /\ \E kycOk \in BOOLEAN, creditOk \in BOOLEAN, e \in ToolErrors :
          LET errs1 == IF kycOk THEN errors ELSE KycError(errors, e)
              tags1 == IF kycOk THEN used_tools \cup {"kyc_tool"} ELSE used_tools
          IN  /\ kyc' = IF kycOk THEN Some(kyc_tool(req.name)) ELSE kyc
              /\ credit' = IF creditOk THEN Some(credit_tool(req.name)) ELSE credit
              /\ used_tools' = IF creditOk THEN tags1 \cup {"credit_tool"} ELSE tags1
              /\ errors' = IF creditOk THEN errs1 ELSE CreditError(errs1, e)
    /\ pc' = "memory"
    /\ trace' = Append(trace, "tools")
    /\ UNCHANGED <<req, disable_llm, baseline, similar, decision, reason,
                   response, db, gen_calls, call, rv>>

\* Variant: the tag is added whether or not a case was found.
MemoryTagsAlways(tags, hits) == tags \cup {"similar_memory"}

MemoryTags(tags, hits) == IF hits # <<>> THEN tags \cup {"similar_memory"} ELSE tags

\* similar_cases never raises, so the except branch of node_memory is dead
node_memory ==
    /\ pc = "memory"
    /\ \E hits \in SimilarResults :
          /\ similar' = hits
          /\ used_tools' = MemoryTags(used_tools, hits)
    /\ pc' = "llm"
    /\ trace' = Append(trace, "memory")
    /\ UNCHANGED <<req, disable_llm, baseline, kyc, credit, decision, reason,
                   errors, response, db, gen_calls, call, rv>>

\* Variant: the decision is read from state["decision"], still unset here.
LlmDecisionFromState(base) ==
    IF IsNone(decision) THEN "manual_review" ELSE Val(decision)

\* the decision node_llm writes: the baseline's, never the model's
LlmDecision(base) ==
    IF Get(base, "decision", "") = "" THEN "manual_review" ELSE base.decision

\* "; ".join(base.get("reasons", [])) or the generic sentence
BaselineShortReason(base) ==
    LET reasons == Get(base, "reasons", <<>>)
        joined == Join(<<"; ">>, [i \in 1..Len(reasons) |-> <<reasons[i]>>])
    IN  IF joined = <<>> THEN <<GenericShortReason>> ELSE joined

\* the short reason after the optional model call; resp is _ollama_once's result
LlmShortReason(base, resp) ==
    IF ~IsNone(resp) /\ Val(resp) # <<>>
    THEN Strip(FirstLine(Val(resp)))
    ELSE BaselineShortReason(base)

LlmTags(tags, resp) ==
    IF ~IsNone(resp) /\ Val(resp) # <<>> THEN tags \cup {"llm_reasoning"} ELSE tags

\* what a call of the generation service gave node_llm: an exception (None), a
\* text that is empty once stripped, or a usable text
GenOutcome(resp) ==
    IF IsNone(resp) THEN "raised"
    ELSE IF Val(resp) = <<>> THEN "blank" ELSE "answered"

\* node_llm with the model disabled
node_llm_disabled ==
    /\ pc = "llm"
    /\ disable_llm
    /\ LET base == OrEmpty(baseline)
       IN  /\ decision' = Some(LlmDecision(base))
           /\ reason' = Some(_format_reason_paragraph(
                            req, LlmDecision(base), BaselineShortReason(base), base))
    /\ pc' = "guard"
    /\ trace' = Append(trace, "llm")
    /\ UNCHANGED <<req, disable_llm, baseline, kyc, credit, similar, used_tools,
                   errors, response, db, gen_calls, call, rv>>

\* Variant: the reason is written only inside "if resp:".
node_llm_call_reason_in_if ==
    /\ pc = "llm"
    /\ ~disable_llm
    /\ similar = <<>>
    /\ \E o \in LlmOutcomes :
          LET base == OrEmpty(baseline)
              resp == _ollama_once(o)
          IN  /\ used_tools' = LlmTags(used_tools, resp)
              /\ decision' = Some(LlmDecision(base))
              /\ reason' = IF ~IsNone(resp) /\ Val(resp) # <<>>
                            THEN Some(_format_reason_paragraph(
                                     req, LlmDecision(base), LlmShortReason(base, resp), base))
                            ELSE reason
              /\ gen_calls' = Append(gen_calls, GenOutcome(resp))
    /\ pc' = "guard"
    /\ trace' = Append(trace, "llm")
    /\ UNCHANGED <<req, disable_llm, baseline, kyc, credit, similar, errors,
                   response, db, call, rv>>

\* node_llm with the model enabled and no similar case: the prompt is built
\* and the model is called once
node_llm_call ==
    /\ pc = "llm"
    /\ ~disable_llm
    /\ similar = <<>>
    /\ \E o \in LlmOutcomes :
          LET base == OrEmpty(baseline)
              resp == _ollama_once(o)
          IN  /\ used_tools' = LlmTags(used_tools, resp)
              /\ decision' = Some(LlmDecision(base))
              /\ reason' = Some(_format_reason_paragraph(
                               req, LlmDecision(base), LlmShortReason(base, resp), base))
              /\ gen_calls' = Append(gen_calls, GenOutcome(resp))
    /\ pc' = "guard"
    /\ trace' = Append(trace, "llm")
    /\ UNCHANGED <<req, disable_llm, baseline, kyc, credit, similar, errors,
                   response, db, call, rv>>

\* node_llm with the model enabled and similar cases: building sim_lines calls
\* d.get('page_content', '') on a Document, which has no get method; the
\* AttributeError leaves node_llm and graph.invoke
node_llm_raise ==
    /\ pc = "llm"
    /\ ~disable_llm
    /\ similar # <<>>
    /\ pc' = "raised"
    /\ UNCHANGED <<req, disable_llm, baseline, kyc, credit, similar, decision,
                   reason, used_tools, errors, trace, response, db, gen_calls, call, rv>>

node_llm == node_llm_disabled \/ node_llm_call \/ node_llm_raise

\* Variant: the tag list is replaced, not extended.
GuardTagsOnly(tags) == {"policy_guard"}

GuardTags(tags) == tags \cup {"policy_guard"}

\* Variant: the override sentence is appended to the paragraph already there.
GuardReasonAppended(r, guarded, base) ==
    (IF IsNone(reason) THEN <<>> ELSE Val(reason)) \o <<" ", GuardSentence>>

GuardReason(r, guarded, base) ==
    _format_reason_paragraph(r, guarded, <<GuardSentence>>, base)

\* Variant: the paragraph is rebuilt whether or not the decision changed.
node_guard_rewrites ==
    /\ pc = "guard"
    /\ LET d0 == OrManual(decision)
           guarded == _policy_guard(d0, req, OrEmpty(kyc))
       IN  /\ used_tools' = IF guarded # d0 THEN GuardTags(used_tools) ELSE used_tools
           /\ decision' = IF guarded # d0 THEN Some(guarded) ELSE decision
           /\ reason' = Some(GuardReason(req, guarded, OrEmpty(baseline)))
    /\ pc' = "END"
    /\ trace' = Append(trace, "guard")
    /\ UNCHANGED <<req, disable_llm, baseline, kyc, credit, similar, errors,
                   response, db, gen_calls, call, rv>>

node_guard ==
    /\ pc = "guard"
    /\ LET d0 == OrManual(decision)
           guarded == _policy_guard(d0, req, OrEmpty(kyc))
       IN  IF guarded # d0
           THEN /\ used_tools' = GuardTags(used_tools)
                /\ decision' = Some(guarded)
                /\ reason' = Some(GuardReason(req, guarded, OrEmpty(baseline)))
           ELSE UNCHANGED <<used_tools, decision, reason>>
    /\ pc' = "END"
    /\ trace' = Append(trace, "guard")
    /\ UNCHANGED <<req, disable_llm, baseline, kyc, credit, similar, errors,
                   response, db, gen_calls, call, rv>>

----------------------------------------------------------------------------
(* agent/agent_api.py: the /agent_review endpoint around the graph *)

NoReason == <<"No reason.">>

\* (out.get("reason") or "No reason.").strip()
ResponseReason(o) == Strip(IF IsNone(o) \/ Val(o) = <<>> THEN NoReason ELSE Val(o))

\* graph.invoke returned: the decision is read, the record is written and the
\* response is built.  The insert raises when the database fails, and always
\* when similar holds Document objects (raw_output is a JSON column and a
\* Document is not JSON serializable); get_session rolls back and re-raises,
\* and nothing in agent_review catches it.
agent_review_return ==
    /\ pc = "END"
    /\ \E dbOk \in BOOLEAN :
          LET d == OrManual(decision)
              r == ResponseReason(reason)
          IN  IF dbOk /\ similar = <<>>
              THEN /\ db' = Append(db, [decision |-> d, reason |-> r,
                                        used_tools |-> used_tools])
                   /\ response' = Some([status |-> 200, decision |-> d,
                                        reason |-> r, used_tools |-> used_tools])
              ELSE /\ db' = db
                   /\ response' = Some([status |-> 500,
                                        detail |-> "Internal Server Error"])
    /\ pc' = "done"
    /\ UNCHANGED <<req, disable_llm, baseline, kyc, credit, similar, decision,
                   reason, used_tools, errors, trace, gen_calls, call, rv>>

\* graph.invoke raised: HTTPException(500)
agent_review_fail ==
    /\ pc = "raised"
    /\ response' = Some([status |-> 500, detail |-> "Graph execution failed"])
    /\ pc' = "done"
    /\ UNCHANGED <<req, disable_llm, baseline, kyc, credit, similar, decision,
                   reason, used_tools, errors, trace, db, gen_calls, call, rv>>

----------------------------------------------------------------------------
(* The run of one /agent_review request *)

Idle == [fn |-> "idle"]

\* review_application is not running
RvIdle == [pc |-> "idle"]

\* agent_review assembles the initial state from the validated request
Init ==
    /\ req \in Requests
    /\ disable_llm \in BOOLEAN
    /\ baseline = None
    /\ kyc = None
    /\ credit = None
    /\ similar = <<>>
    /\ decision = None
    /\ reason = None
    /\ used_tools = {}
    /\ errors = <<>>
    /\ pc = "rules"
    /\ trace = <<>>
    /\ response = None
    /\ db = <<>>
    /\ gen_calls = <<>>
    /\ call = Idle
    /\ rv = RvIdle

Next ==
    \/ node_rules
    \/ node_tools
    \/ node_memory
    \/ node_llm
    \/ node_guard
    \/ agent_review_return
    \/ agent_review_fail

Spec == Init /\ [][Next]_vars

----------------------------------------------------------------------------
(* _policy_guard on its own: every decision, application and identity signal *)

\* the pipeline when no /agent_review request is running
PipelineIdle ==
    /\ req = CHOOSE r \in Requests : TRUE
    /\ disable_llm = FALSE
    /\ baseline = None
    /\ kyc = None
    /\ credit = None
    /\ similar = <<>>
    /\ decision = None
    /\ reason = None
    /\ used_tools = {}
    /\ errors = <<>>
    /\ pc = "idle"
    /\ trace = <<>>
    /\ response = None
    /\ db = <<>>
    /\ gen_calls = <<>>

\* identity signals: {} (the lookup failed) and every dict over the two keys
\* the guard reads
KycDicts == UNION {[ks -> BOOLEAN] : ks \in SUBSET {"kyc_verified", "pep_match"}}

GuardInit ==
    /\ PipelineIdle
    /\ rv = RvIdle
    /\ call \in [fn : {"_policy_guard"}, decision : Decisions, req : Requests,
                 kyc : KycDicts, ret : {None}]

apply_policy_guard ==
    /\ call.fn = "_policy_guard"
    /\ IsNone(call.ret)
    /\ call' = [call EXCEPT !.ret = Some(_policy_guard(call.decision, call.req, call.kyc))]
    /\ UNCHANGED <<pipeVars, rv>>

GuardNext == apply_policy_guard

SpecGuard == GuardInit /\ [][GuardNext]_vars

----------------------------------------------------------------------------
(* Properties of the graph pipeline *)

Stages == <<"rules", "tools", "memory", "llm", "guard">>

\* C1: a run of the graph that completed (guard returned) has decision set to
\* approve, reject or manual_review, and so has every 200 response of
\* agent_review, whatever the lookups, the store and the model did.
C1_DecisionClosed ==
    /\ (pc = "END" \/ (pc = "done" /\ trace = Stages))
          => decision \in {Some(d) : d \in Decisions}
    /\ (~IsNone(response) /\ Val(response).status = 200)
          => Val(response).decision \in Decisions

\* a completed request in which both lookups and the model failed
C1_Witness ==
    /\ pc = "done"
    /\ ~IsNone(response)
    /\ Val(response).status = 200
    /\ Val(response).decision = "manual_review"
    /\ Len(errors) = 2
    /\ gen_calls = <<"raised">>

\* C2: _policy_guard returns reject for reject, manual_review for
\* manual_review, and approve or manual_review for approve.
C2_GuardNeverUpgrades ==
    (call.fn = "_policy_guard" /\ ~IsNone(call.ret)) =>
        LET out == Val(call.ret)
        IN  /\ call.decision = "reject" => out = "reject"
            /\ call.decision = "manual_review" => out = "manual_review"
            /\ call.decision = "approve" => out \in {"approve", "manual_review"}

\* manual_review went in with a clean identity signal and came out unchanged
C2_Witness ==
    /\ call.fn = "_policy_guard"
    /\ call.decision = "manual_review"
    /\ call.ret = Some("manual_review")
    /\ DOMAIN call.kyc = {"kyc_verified", "pep_match"}
    /\ call.kyc.kyc_verified
    /\ ~call.kyc.pep_match
    /\ call.req.credit_score >= 620
    /\ call.req.loan_amount <= call.req.income

\* the four conditions under which an approve is downgraded
DowngradeCondition(r, k) ==
    \/ "kyc_verified" \notin DOMAIN k
    \/ ~k.kyc_verified
    \/ ("pep_match" \in DOMAIN k /\ k.pep_match)
    \/ r.credit_score < 520
    \/ r.loan_amount > 12 * r.income

\* C3: given approve, _policy_guard returns manual_review exactly when the
\* identity signal is absent or not verified, or reports a PEP match, or the
\* credit score is below 520, or the amount exceeds 12 x income; otherwise it
\* returns approve.
C3_GuardDowngradeRule ==
    (call.fn = "_policy_guard" /\ ~IsNone(call.ret) /\ call.decision = "approve") =>
        /\ Val(call.ret) = "manual_review" <=> DowngradeCondition(call.req, call.kyc)
        /\ ~DowngradeCondition(call.req, call.kyc) => Val(call.ret) = "approve"

\* an approve with a clean identity signal and a good score, downgraded only
\* because the amount is above 12 x income
C3_Witness ==
    /\ call.fn = "_policy_guard"
    /\ call.decision = "approve"
    /\ call.ret = Some("manual_review")
    /\ DOMAIN call.kyc = {"kyc_verified", "pep_match"}
    /\ call.kyc.kyc_verified
    /\ ~call.kyc.pep_match
    /\ call.req.credit_score >= 520
    /\ call.req.income > 0
    /\ call.req.loan_amount > 12 * call.req.income

\* the decision the severity order gives an application
SeverityDecision(r) ==
    IF r.credit_score < 520 THEN "reject"
    ELSE IF \/ r.loan_amount > 10 * r.income
            \/ /\ r.employment_status \in {"student", "unemployed"}
               /\ 2 * r.loan_amount > r.income
         THEN "manual_review"
         ELSE "approve"

\* C4: the baseline decision is reject when the score is below 520, else
\* manual_review when the amount exceeds 10 x income or a student or
\* unemployed applicant asks for more than half the income, else approve
\* (also in the 520..619 band), whatever the order of the reasons.
C4_RuleSeverity ==
    ~IsNone(baseline) => Val(baseline).decision = SeverityDecision(req)

\* the 10x reason was appended first and the very-low-score reason decided
C4_Witness ==
    /\ ~IsNone(baseline)
    /\ Val(baseline).reasons = <<ExceedsReason, VeryLowReason, HighRiskReason>>
    /\ Val(baseline).decision = "reject"

\* C5: when node_llm has returned, state.decision is the baseline decision,
\* whatever the generation service answered and whether or not it is disabled.
C5_NarrativeKeepsDecision ==
    pc = "guard" => decision = Some(Val(baseline).decision)

\* the model answered, its sentence was used, and the decision is the baseline's
C5_Witness ==
    /\ pc = "guard"
    /\ gen_calls = <<"answered">>
    /\ "llm_reasoning" \in used_tools
    /\ decision = Some("reject")

\* C6: no step of a run removes a tag from used_tools.
C6_UsedToolsMonotonic == [][used_tools \subseteq used_tools']_vars

\* a run in which every stage that can add a tag has added one
C6_Witness ==
    /\ pc = "END"
    /\ used_tools = {"rules", "kyc_tool", "credit_tool", "llm_reasoning", "policy_guard"}

\* e is the error string of the lookup named tag
Tagged(e, tag) == \E x \in ToolErrors : e = (tag \o ": ") \o x

TaggedCount(errs, tag) == Cardinality({i \in DOMAIN errs : Tagged(errs[i], tag)})

\* C7: node_tools always returns and hands over to the memory stage; errors
\* only grows; the identity field is absent exactly when one error tagged
\* kyc_tool was appended, the credit field is absent exactly when one error
\* tagged credit_tool was appended (so the credit lookup is attempted after a
\* failed identity lookup), and nothing else is appended.
C7_ToolsFailureTolerated ==
    [][pc = "tools" =>
          /\ pc' = "memory"
          /\ trace' = Append(trace, "tools")
          /\ IsPrefix(errors, errors')
          /\ LET new == SubSeq(errors', Len(errors) + 1, Len(errors'))
             IN  /\ TaggedCount(new, "kyc_tool") = (IF IsNone(kyc') THEN 1 ELSE 0)
                 /\ TaggedCount(new, "credit_tool") = (IF IsNone(credit') THEN 1 ELSE 0)
                 /\ Len(new) = TaggedCount(new, "kyc_tool") + TaggedCount(new, "credit_tool")
                 /\ IsNone(kyc') => "kyc_tool" \notin used_tools'
                 /\ IsNone(credit') => "credit_tool" \notin used_tools'
    ]_vars

\* the identity lookup failed, the credit lookup answered, and the run went on
\* through memory, llm and guard
C7_Witness ==
    /\ pc = "END"
    /\ trace = Stages
    /\ IsNone(kyc)
    /\ ~IsNone(credit)
    /\ errors = <<"kyc_tool: timeout">>

\* C8: every run that has ended executed rules, tools, memory, llm and guard
\* once each, in that order.
C8_AllStagesRun == pc = "done" => trace = Stages

C16_OnlyGraphFailureBlocks ==
    pc = "done" =>
       /\ ~IsNone(response)
       /\ trace # Stages =>
             /\ Val(response).status = 500
             /\ "decision" \notin DOMAIN Val(response)
             /\ db = <<>>
       /\ trace = Stages =>
             /\ Val(response).status = 200
             /\ Val(response).decision \in Decisions

\* a call of the generation service did not answer within its timeout (or
\* failed otherwise): the only timeout of a run
TimeoutElapsed == \E i \in DOMAIN gen_calls : gen_calls[i] = "raised"

GuardChanged == trace = Stages /\ decision # Some(LlmDecision(OrEmpty(baseline)))

\* C21: when a run of the graph has ended, used_tools holds rules; kyc_tool
\* exactly when the identity lookup returned a result; credit_tool exactly
\* when the credit lookup returned a result; similar_memory exactly when
\* retrieval returned at least one case; llm_reasoning exactly when the
\* generation service returned a text that is not empty once stripped;
\* policy_guard exactly when the guard changed the decision; nothing else.
C21_TagsIffContributed ==
    pc \in {"END", "raised", "done"} =>
       /\ "rules" \in used_tools
       /\ "kyc_tool" \in used_tools <=> ~IsNone(kyc)
       /\ "credit_tool" \in used_tools <=> ~IsNone(credit)
       /\ "similar_memory" \in used_tools <=> similar # <<>>
       /\ "llm_reasoning" \in used_tools <=> (\E i \in DOMAIN gen_calls : gen_calls[i] = "answered")
       /\ "policy_guard" \in used_tools <=> GuardChanged
       /\ used_tools \subseteq {"rules", "kyc_tool", "credit_tool", "similar_memory",
                                "llm_reasoning", "policy_guard"}

\* a run ended in which the identity lookup answered, the credit lookup
\* failed, no case was found, the model answered a sentence and the guard
\* downgraded the decision
C21_Witness ==
    /\ pc = "END"
    /\ used_tools = {"rules", "kyc_tool", "llm_reasoning", "policy_guard"}
    /\ IsNone(credit)
    /\ similar = <<>>
    /\ gen_calls = <<"answered">>
    /\ decision = Some("manual_review")

\* C22: no step of a run changes the request, a baseline, an identity result,
\* a credit result or a non-empty list of similar cases that is already set;
\* errors only grows at its end and used_tools only grows; decision and
\* reason are the only fields written a second time, and only by the guard
\* when it changes the decision: otherwise the guard leaves decision, reason
\* and used_tools as they are.
C22_FrameEffects ==
    [][/\ req' = req
       /\ ~IsNone(baseline) => baseline' = baseline
       /\ ~IsNone(kyc) => kyc' = kyc
       /\ ~IsNone(credit) => credit' = credit
       /\ similar # <<>> => similar' = similar
       /\ pc # "memory" => similar' = similar
       /\ IsPrefix(errors, errors')
       /\ used_tools \subseteq used_tools'
       /\ (~IsNone(decision) /\ decision' # decision) => pc = "guard"
       /\ (~IsNone(reason) /\ reason' # reason) => (pc = "guard" /\ decision' # decision)
       /\ (pc = "guard" /\ decision' = decision) =>
             (reason' = reason /\ used_tools' = used_tools)
    ]_vars

\* a run ended with a baseline, an identity result, an error entry of the
\* credit lookup and similar cases all still in place after the guard
\* replaced the decision
C22_Witness ==
    /\ pc = "END"
    /\ ~IsNone(baseline)
    /\ Val(baseline).decision = "approve"
    /\ ~IsNone(kyc)
    /\ IsNone(credit)
    /\ errors = <<"credit_tool: timeout">>
    /\ similar # <<>>
    /\ decision = Some("manual_review")

----------------------------------------------------------------------------
(* agent/agent_with_llm.py: helpers of review_application *)

\* A decision text is a string of ASCII characters in which "^" stands for a
\* code point that is not ASCII once the text is decomposed (NFKD): the
\* combining mark of an accented letter.
NonAscii == "^"

RECURSIVE _strip_accents(_)
\* NFKD, then encode("ascii", "ignore"): the non-ASCII code points are dropped
_strip_accents(s) ==
    IF s = "" THEN ""
    ELSE (IF SubSeq(s, 1, 1) = NonAscii THEN "" ELSE SubSeq(s, 1, 1))
         \o _strip_accents(SubSeq(s, 2, Len(s)))

RECURSIVE StrStrip(_)
\* str.strip() of a string
StrStrip(s) ==
    IF s = "" THEN ""
    ELSE IF SubSeq(s, 1, 1) \in WS THEN StrStrip(SubSeq(s, 2, Len(s)))
    ELSE IF SubSeq(s, Len(s), Len(s)) \in WS THEN StrStrip(SubSeq(s, 1, Len(s) - 1))
    ELSE s

RECURSIVE StrLower(_)
\* str.lower() of a string
StrLower(s) ==
    IF s = "" THEN ""
    ELSE LowerChar(SubSeq(s, 1, 1)) \o StrLower(SubSeq(s, 2, Len(s)))

\* _strip_accents(s).strip().lower()
DecisionKey(s) == StrLower(StrStrip(_strip_accents(s)))

ApproveSet ==
    {"approve", "approved", "ok", "accept", "accepted", "grant", "granted",
     "approuve", "approuvee", "aprobado", "aprovado"}

RejectSet ==
    {"reject", "rejected", "deny", "denied", "decline", "declined",
     "rejeter", "rejete", "rechazado", "negado"}

FlagSet ==
    {"flag", "review", "manual review", "needs review", "hold",
     "surveiller", "revision", "pendiente"}

\* None when the text is empty or unknown
_normalize_decision(s) ==
    IF s = "" THEN None
    ELSE IF DecisionKey(s) \in ApproveSet THEN Some("Approve")
    ELSE IF DecisionKey(s) \in RejectSet THEN Some("Reject")
    ELSE IF DecisionKey(s) \in FlagSet THEN Some("Flag")
    ELSE None

\* an entry of a JSON list: a string or something else, v its text
StrEntry(x) == [t |-> "str", v |-> x]

\* the model's text: a sequence of tokens, each prose, a code fence, a
\* well-formed JSON object, or a fragment with braces that is not JSON
ProseToken == [t |-> "prose"]
FenceToken == [t |-> "fence"]
JunkToken == [t |-> "junk"]
ObjToken(c) == [t |-> "obj", v |-> c]

\* the regular expression takes the text from the first "{" to the last "}";
\* json.loads accepts it only when that is exactly one well-formed object
_extract_json_block(raw) ==
    LET braced == SelectSeq(raw, LAMBDA k : k.t \in {"obj", "junk"})
        first == CHOOSE i \in 1..Len(raw) : raw[i].t \in {"obj", "junk"}
                    /\ \A j \in 1..(i - 1) : raw[j].t \notin {"obj", "junk"}
        last == CHOOSE i \in 1..Len(raw) : raw[i].t \in {"obj", "junk"}
                    /\ \A j \in (i + 1)..Len(raw) : raw[j].t \notin {"obj", "junk"}
    IN  IF braced = <<>> THEN None
        ELSE IF first = last /\ raw[first].t = "obj" THEN Some(raw[first].v)
        ELSE None

\* str(compliance.get("reason", default)) as a text
ComplianceReason(compliance, default) ==
    IF "reason" \in DOMAIN compliance THEN compliance.reason ELSE <<default>>

\* Variant: the compliance decision is taken as the service wrote it, as the
\* final fallback of review_application does.
NormalizeCardRawCompliance(card, compliance, used) ==
    LET d1 == _normalize_decision(IF IsNone(card.decision) THEN "" ELSE Val(card.decision))
        tools == IF card.used_tools.t # "list" \/ card.used_tools.v = <<>>
                 THEN used ELSE card.used_tools.v
    IN  [decision |-> IF ~IsNone(d1) THEN Val(d1) ELSE Get(compliance, "decision", "Flag"),
         reason |-> Strip(ComplianceReason(compliance, "Decision based on compliance rules")),
         used_tools |-> tools]

\* a card is [decision: optional string, used_tools: [t, v]]; used_tools.t is
\* "missing", "notlist" or "list"
_normalize_card(card, compliance, used) ==
    LET d1 == _normalize_decision(IF IsNone(card.decision) THEN "" ELSE Val(card.decision))
        d2 == _normalize_decision(Get(compliance, "decision", ""))
        tools == IF card.used_tools.t # "list" \/ card.used_tools.v = <<>>
                 THEN used ELSE card.used_tools.v
    IN  [decision |-> IF ~IsNone(d1) THEN Val(d1)
                      ELSE IF ~IsNone(d2) THEN Val(d2) ELSE "Flag",
         reason |-> Strip(ComplianceReason(compliance, "Decision based on compliance rules")),
         used_tools |-> tools]

\* round-half-even of n / d for n >= 0, d > 0 (at an exact tie Python rounds
\* the binary value of the quotient; the applications used here have no tie)
RoundDiv(n, d) ==
    LET q == n \div d
        r == n % d
    IN  IF 2 * r < d THEN q
        ELSE IF 2 * r > d THEN q + 1
        ELSE IF q % 2 = 0 THEN q ELSE q + 1

\* Variant: the ratio rounded to 2 decimals, as the graph pipeline shows it.
ComputeLtiTwoDecimals(app) ==
    LET inc == Get(app, "income", 0)
        amt == Get(app, "loan_amount", 0)
    IN  IF inc <= 0 THEN None ELSE Some(10 * RoundDiv(100 * amt, inc))

\* round(amt / inc, 3) in thousandths; None when income <= 0.  A missing key
\* reads as 0 (app.get(key, 0) or 0).
_compute_lti(app) ==
    LET inc == Get(app, "income", 0)
        amt == Get(app, "loan_amount", 0)
    IN  IF inc <= 0 THEN None ELSE Some(RoundDiv(1000 * amt, inc))

\* f"{int(round(lti*100))}%" or "N/A"
LtiStr(lti) ==
    IF IsNone(lti) THEN "N/A" ELSE ToString(RoundDiv(Val(lti), 10)) \o "%"

RECURSIVE CharLen(_)
\* len() of a text
CharLen(t) == IF t = <<>> THEN 0 ELSE Len(Head(t)) + CharLen(Tail(t))

RECURSIVE Truncate(_, _)
\* text[:n]
Truncate(t, n) ==
    IF t = <<>> \/ n <= 0 THEN <<>>
    ELSE IF Len(Head(t)) <= n
         THEN <<Head(t)>> \o Truncate(Tail(t), n - Len(Head(t)))
         ELSE <<SubSeq(Head(t), 1, n)>>

DetailLimit == 800

\* the piece that stands for a run of backquotes (a code fence)
Fence == "<fence>"

RECURSIVE StripFence(_)
\* text.strip of backquotes, blanks and newlines
StripFence(t) ==
    IF t # <<>> /\ Head(t) \in WS \cup {Fence} THEN StripFence(Tail(t))
    ELSE IF t # <<>> /\ t[Len(t)] \in WS \cup {Fence}
         THEN StripFence(SubSeq(t, 1, Len(t) - 1))
         ELSE t

\* the text the try branch of _generate_detailed_reason returns for the
\* model's content
DetailFromModel(content, short_reason) ==
    LET t0 == Strip(content)
        t1 == IF t0 # <<>> /\ Head(t0) = Fence THEN StripFence(t0) ELSE t0
        t2 == IF t0 # <<>> /\ Head(t0) = Fence /\ t1 # <<>> /\ Head(t1) \in {"json", "JSON"}
              THEN Strip(Tail(t1)) ELSE t1
    IN  IF t2 # <<>> THEN Truncate(t2, DetailLimit) ELSE short_reason

DetailOpening(d) ==
    IF d = "Approve" THEN "Your application has been approved."
    ELSE IF d = "Reject" THEN "We're unable to approve your application at this time."
    ELSE "Your application needs a brief manual review."

\* the deterministic paragraph of the except branch; tenure and defaults are
\* optional numbers (None when "unknown" or not numeric)
DetailFallback(d, short_reason, app, customer) ==
    LET lti == _compute_lti(app)
        tenure == Get(customer, "years_with_employer", None)
        defaults == Get(customer, "past_defaults", None)
        parts ==
            << <<DetailOpening(d)>> >>
            \o (IF short_reason # <<>> THEN <<short_reason \o <<".">> >> ELSE <<>>)
            \o (IF app.credit_score # 0
                THEN << <<"Credit score: " \o ToString(app.credit_score) \o ".">> >>
                ELSE <<>>)
            \o (IF ~IsNone(lti)
                THEN << <<"Loan-to-income ratio: " \o LtiStr(lti) \o ".">> >>
                ELSE <<>>)
            \o (IF ~IsNone(tenure) /\ Val(tenure) >= 0
                THEN << <<"Employment tenure: " \o ToString(Val(tenure)) \o " year(s).">> >>
                ELSE <<>>)
            \o (IF ~IsNone(defaults) /\ Val(defaults) >= 0
                THEN << <<"Past defaults: " \o ToString(Val(defaults)) \o ".">> >>
                ELSE <<>>)
    IN  Truncate(Join(<<" ">>, parts), DetailLimit)

\* outcome is the model call: [ok, text]
_generate_detailed_reason(d, compliance, customer, app, outcome) ==
    LET short_reason == ComplianceReason(compliance, "Policy-based decision")
    IN  IF outcome.ok THEN DetailFromModel(outcome.text, short_reason)
        ELSE DetailFallback(d, short_reason, app, customer)

----------------------------------------------------------------------------
(* agent/agent_with_llm.py: review_application *)

\* the application dict the caller passes (credit_score 0 stands for a falsy
\* score)
ReviewApps ==
    [name : { <<"A", "l">> }, income : 0..MaxIncome, loan_amount : {0, MaxLoan},
     credit_score : {0, 620}, employment_status : {"employed"}]

\* what the compliance service can answer: any subset of the two keys
ComplianceDecisions == {"Approve", "Flag", "REJECTED", "maybe"}
ComplianceReasons == { <<>>, <<"Meets baseline policy">> }

ComplianceResults ==
    {[decision |-> d, reason |-> r] : d \in ComplianceDecisions, r \in ComplianceReasons}
    \cup {[decision |-> d] : d \in ComplianceDecisions}
    \cup {[reason |-> r] : r \in ComplianceReasons}
    \cup {EmptyDict}

\* what the customer service can answer; a value that is "unknown" or not a
\* number is None
CustomerResults ==
    {[past_defaults |-> Some(0), years_with_employer |-> Some(5), existing_loans |-> Some(1)],
     [past_defaults |-> None, years_with_employer |-> Some(0 - 1), existing_loans |-> None]}

CustomerUnavailable == [note |-> "Customer info unavailable"]

\* the used_tools field of the model's JSON object
ToolFields ==
    {[t |-> "missing", v |-> <<>>],
     [t |-> "notlist", v |-> <<>>],
     [t |-> "list", v |-> <<>>],
     [t |-> "list", v |-> <<StrEntry("web_search")>>],
     [t |-> "list", v |-> <<[t |-> "num", v |-> "42"]>>]}

ModelCards ==
    [decision : {None, Some("Approve"), Some("REJECTED"), Some("maybe")},
     used_tools : ToolFields]

\* the model's answers to the decision prompt
DecideRaws ==
    {<<>>, <<ProseToken>>, <<JunkToken>>}
    \cup {<<ObjToken(c)>> : c \in ModelCards}
    \cup {<<FenceToken, ObjToken(c), FenceToken>> : c \in ModelCards}
    \cup {<<ObjToken(c), JunkToken>> : c \in ModelCards}

DecideOutcomes ==
    {[ok |-> FALSE, raw |-> <<>>]} \cup {[ok |-> TRUE, raw |-> r] : r \in DecideRaws}

X10 == "xxxxxxxxxx"
X100 == X10 \o X10 \o X10 \o X10 \o X10 \o X10 \o X10 \o X10 \o X10 \o X10
LongPiece == X100 \o X100 \o X100 \o X100 \o X100

\* the model's answers to the explanation prompt
DetailTexts ==
    {<<>>, <<" ">>, <<Fence>>, <<"Approved.">>,
     <<Fence, "json", "\n", "Approved.", "\n", Fence>>,
     <<LongPiece, " ", LongPiece>>}

DetailOutcomes ==
    {[ok |-> FALSE, text |-> <<>>]} \cup {[ok |-> TRUE, text |-> t] : t \in DetailTexts}

OwnTool(tag) == StrEntry(tag)

\* the card returned when the compliance service is unavailable
ComplianceUnavailableCard ==
    [decision |-> "Flag",
     reason |-> <<"Compliance service unavailable">>,
     reason_detailed |->
        <<"We could not complete automated checks. Please try again or contact support.">>,
     used_tools |-> <<OwnTool("check_compliance")>>]

\* the card of the final fallback (the decision call raised)
FallbackCard(compliance, used) ==
    [decision |-> Get(compliance, "decision", "Flag"),
     reason |-> Strip(ComplianceReason(compliance, "Decision based on compliance rules")),
     used_tools |-> used]

\* the card after the decision call answered raw
DecidedCard(raw, compliance, used) ==
    LET parsed == _extract_json_block(raw)
    IN  IF IsNone(parsed)
        THEN _normalize_card(
                 [decision |-> Some(Get(compliance, "decision", "Flag")),
                  used_tools |-> [t |-> "list", v |-> used]],
                 compliance, used)
        ELSE _normalize_card(Val(parsed), compliance, used)

ReviewInit ==
    /\ PipelineIdle
    /\ call = Idle
    /\ rv \in [pc : {"compliance"}, app : ReviewApps, attempt : {0},
               compliance_calls : {0}, customer_calls : {0},
               compliance : {EmptyDict}, customer : {EmptyDict},
               had_hits : {FALSE}, used_tools : {<<>>},
               card : {None}, output : {None},
               succeeded : {{}}, compliance_log : {<<>>}, customer_log : {<<>>}]

\* Variant: no retry, the first failure of the compliance call is raised.
rv_call_compliance_no_retry ==
    /\ rv.pc = "compliance"
    /\ \/ \E c \in ComplianceResults :
             rv' = [rv EXCEPT !.compliance = c,
                              !.compliance_calls = @ + 1,
                              !.compliance_log = Append(@, "ok"),
                              !.succeeded = @ \cup {"check_compliance"},
                              !.used_tools = <<OwnTool("check_compliance")>>,
                              !.attempt = 0,
                              !.pc = "customer"]
       \/ rv' = [rv EXCEPT !.compliance_calls = @ + 1,
                           !.compliance_log = Append(@, "raised"),
                           !.output = Some(ComplianceUnavailableCard),
                           !.pc = "done"]
    /\ UNCHANGED <<pipeVars, call>>

\* one pass of the loop of _call_compliance, and what review_application does
\* with its result; succeeded is the set of sources that answered and
\* compliance_log the outcome of each attempt so far
rv_call_compliance ==
    /\ rv.pc = "compliance"
    /\ \/ \E c \in ComplianceResults :
             rv' = [rv EXCEPT !.compliance = c,
                              !.compliance_calls = @ + 1,
                              !.compliance_log = Append(@, "ok"),
                              !.succeeded = @ \cup {"check_compliance"},
                              !.used_tools = <<OwnTool("check_compliance")>>,
                              !.attempt = 0,
                              !.pc = "customer"]
       \/ /\ rv.attempt = 0
          /\ rv' = [rv EXCEPT !.compliance_calls = @ + 1,
                              !.compliance_log = Append(@, "raised"),
                              !.attempt = 1]
       \/ /\ rv.attempt = 1
          /\ rv' = [rv EXCEPT !.compliance_calls = @ + 1,
                              !.compliance_log = Append(@, "raised"),
                              !.output = Some(ComplianceUnavailableCard),
                              !.pc = "done"]
    /\ UNCHANGED <<pipeVars, call>>

\* one pass of the loop of _call_customer, and what review_application does
\* with its result
rv_call_customer ==
    /\ rv.pc = "customer"
    /\ \/ \E c \in CustomerResults :
             rv' = [rv EXCEPT !.customer = c,
                              !.customer_calls = @ + 1,
                              !.customer_log = Append(@, "ok"),
                              !.succeeded = @ \cup {"customer_info"},
                              !.used_tools = Append(@, OwnTool("customer_info")),
                              !.pc = "similar"]
       \/ /\ rv.attempt = 0
          /\ rv' = [rv EXCEPT !.customer_calls = @ + 1,
                              !.customer_log = Append(@, "raised"),
                              !.attempt = 1]
       \/ /\ rv.attempt = 1
          /\ rv' = [rv EXCEPT !.customer_calls = @ + 1,
                              !.customer_log = Append(@, "raised"),
                              !.customer = CustomerUnavailable,
                              !.pc = "similar"]
    /\ UNCHANGED <<pipeVars, call>>

\* _similar_cases_block
rv_similar ==
    /\ rv.pc = "similar"
    /\ \E hits \in SimilarResults :
          rv' = [rv EXCEPT !.had_hits = (hits # <<>>),
                           !.succeeded = IF hits # <<>> THEN @ \cup {"similar_cases"} ELSE @,
                           !.used_tools = IF hits # <<>>
                                          THEN Append(@, OwnTool("similar_cases"))
                                          ELSE @,
                           !.pc = "decide"]
    /\ UNCHANGED <<pipeVars, call>>

\* the decision call and the card built from it
rv_decide ==
    /\ rv.pc = "decide"
    /\ \E o \in DecideOutcomes :
          /\ rv' = [rv EXCEPT !.card =
                                 IF o.ok
                                 THEN Some(DecidedCard(o.raw, rv.compliance, rv.used_tools))
                                 ELSE Some(FallbackCard(rv.compliance, rv.used_tools)),
                              !.pc = "detail"]
          /\ gen_calls' = Append(gen_calls, IF o.ok THEN "answered" ELSE "raised")
    /\ UNCHANGED <<req, disable_llm, baseline, kyc, credit, similar, decision,
                   reason, used_tools, errors, pc, trace, response, db, call>>

\* _generate_detailed_reason and the returned card
rv_detail ==
    /\ rv.pc = "detail"
    /\ \E o \in DetailOutcomes :
          LET card == Val(rv.card)
              detailed == _generate_detailed_reason(
                              card.decision, rv.compliance, rv.customer, rv.app, o)
          IN  /\ rv' = [rv EXCEPT !.output =
                                     Some([decision |-> card.decision,
                                           reason |-> card.reason,
                                           used_tools |-> card.used_tools,
                                           reason_detailed |-> detailed]),
                                  !.pc = "done"]
              /\ gen_calls' = Append(gen_calls, IF o.ok THEN "answered" ELSE "raised")
    /\ UNCHANGED <<req, disable_llm, baseline, kyc, credit, similar, decision,
                   reason, used_tools, errors, pc, trace, response, db, call>>

ReviewNext ==
    \/ rv_call_compliance
    \/ rv_call_customer
    \/ rv_similar
    \/ rv_decide
    \/ rv_detail

SpecReview == ReviewInit /\ [][ReviewNext]_vars

----------------------------------------------------------------------------
(* Both entry points: a request runs the graph pipeline or review_application *)

EntryInit == Init \/ ReviewInit

EntryNext == Next \/ ReviewNext

SpecEntry == EntryInit /\ [][EntryNext]_vars

AllRaised == \A i \in DOMAIN gen_calls : gen_calls[i] = "raised"

\* C10: when every call of the generation service raised, the reason node_llm
\* wrote, the reason agent_review answers and the reason_detailed of
\* review_application's card are non-empty texts.
C10_FallbackReason ==
    /\ (AllRaised /\ (pc \in {"guard", "END"} \/ (pc = "done" /\ trace = Stages)))
          => (~IsNone(reason) /\ Val(reason) # <<>>)
    /\ (AllRaised /\ ~IsNone(response) /\ Val(response).status = 200)
          => Val(response).reason # <<>>
    /\ (AllRaised /\ rv.pc = "done")
          => (~IsNone(rv.output) /\ Val(rv.output).reason_detailed # <<>>)

\* review_application returned after both of its model calls raised, with a
\* compliance result that carries an empty reason
C10_Witness ==
    /\ rv.pc = "done"
    /\ gen_calls = <<"raised", "raised">>
    /\ "reason" \in DOMAIN rv.compliance
    /\ rv.compliance.reason = <<>>
    /\ Val(rv.output).reason_detailed # <<>>

----------------------------------------------------------------------------
(* agent/agent_with_llm.py: _normalize_card applied to any card *)

\* decision texts: empty, synonyms in other case, padded and accented, a text
\* that holds a synonym without being one, and unknown texts
NormalizeTexts == {"", "Approve", " approuve^e ", "REJECTED", " Hold ", "maybe", "approve it"}

NormalizeToolFields ==
    ToolFields \cup {[t |-> "list", v |-> <<StrEntry("check_compliance")>>]}

NormalizeCards ==
    [decision : {None} \cup {Some(t) : t \in NormalizeTexts},
     used_tools : NormalizeToolFields]

NormalizeComplianceDecisions == {"", "Approve", "aprobado", "Flag", "denied", "maybe"}

NormalizeCompliance ==
    {[decision |-> d, reason |-> r] :
        d \in NormalizeComplianceDecisions, r \in ComplianceReasons}
    \cup {[reason |-> r] : r \in ComplianceReasons}
    \cup {EmptyDict}

\* the orchestrator's own list when _normalize_card is called
OwnLists ==
    {<<OwnTool("check_compliance")>>,
     <<OwnTool("check_compliance"), OwnTool("customer_info")>>}

NormalizeInit ==
    /\ PipelineIdle
    /\ rv = RvIdle
    /\ call \in [fn : {"_normalize_card"}, card : NormalizeCards,
                 compliance : NormalizeCompliance, used : OwnLists, ret : {None}]

apply_normalize_card ==
    /\ call.fn = "_normalize_card"
    /\ IsNone(call.ret)
    /\ call' = [call EXCEPT !.ret = Some(_normalize_card(call.card, call.compliance, call.used))]
    /\ UNCHANGED <<pipeVars, rv>>

NormalizeNext == apply_normalize_card

SpecNormalize == NormalizeInit /\ [][NormalizeNext]_vars

Synonyms == ApproveSet \cup RejectSet \cup FlagSet

\* str(card.get("decision", ""))
CardText(card) == IF IsNone(card.decision) THEN "" ELSE Val(card.decision)

NormalizeReturned == call.fn = "_normalize_card" /\ ~IsNone(call.ret)

\* C11 as stated: when the model's decision text is not in the synonym table,
\* the normalized decision is Flag, whatever the compliance result is.
C11_UnrecognizedIsFlag ==
    (NormalizeReturned /\ DecisionKey(CardText(call.card)) \notin Synonyms)
       => Val(call.ret).decision = "Flag"

\* C11, amended: when the model's decision text is not in the synonym table,
\* _normalize_decision yields nothing for it and the normalized decision is
\* the class of the compliance decision: Approve exactly when the compliance
\* decision is an approve synonym, Reject exactly when it is a reject synonym,
\* and Flag otherwise (a flag synonym, a text not in the table, or none).
C11_UnrecognizedFallsBack ==
    (NormalizeReturned /\ DecisionKey(CardText(call.card)) \notin Synonyms)
       => LET k == DecisionKey(Get(call.compliance, "decision", ""))
              d == Val(call.ret).decision
          IN  /\ IsNone(_normalize_decision(CardText(call.card)))
              /\ d = "Approve" <=> k \in ApproveSet
              /\ d = "Reject" <=> k \in RejectSet
              /\ d = "Flag" <=> k \notin ApproveSet \cup RejectSet

\* an unknown model text was normalized to Approve because the compliance
\* decision is an approve synonym
C11_Witness ==
    /\ NormalizeReturned
    /\ call.card.decision = Some("maybe")
    /\ call.compliance = [decision |-> "aprobado", reason |-> <<>>]
    /\ Val(call.ret).decision = "Approve"

\* the tags review_application itself appends
ToolTags == {"check_compliance", "customer_info", "similar_cases"}

\* a used_tools field that is a non-empty list of tool-tag strings
WellFormedTools(f) ==
    /\ f.t = "list"
    /\ f.v # <<>>
    /\ \A i \in DOMAIN f.v : f.v[i].t = "str" /\ f.v[i].v \in ToolTags

\* C13: when the used_tools of the model's card is missing, not a list, empty,
\* or a list with an entry that is not a tool-tag string, the normalized card
\* carries the orchestrator's own list.
C13_MalformedToolsReplaced ==
    (NormalizeReturned /\ ~WellFormedTools(call.card.used_tools))
       => Val(call.ret).used_tools = call.used

----------------------------------------------------------------------------
(* agent/agent_with_llm.py: _compute_lti applied to any application *)

\* incomes and amounts of the applications _compute_lti is applied to
LtiIncomes == {0 - 1, 0, 1, 3, 50000}
LtiAmounts == 0..MaxLoan \cup {20000}

\* application dicts with or without the two keys
LtiApps ==
    {[income |-> i, loan_amount |-> a] : i \in LtiIncomes, a \in LtiAmounts}
    \cup {[income |-> i] : i \in LtiIncomes}
    \cup {[loan_amount |-> a] : a \in LtiAmounts}
    \cup {EmptyDict}

LtiInit ==
    /\ PipelineIdle
    /\ rv = RvIdle
    /\ call \in [fn : {"_compute_lti"}, app : LtiApps, ret : {None}]

apply_compute_lti ==
    /\ call.fn = "_compute_lti"
    /\ IsNone(call.ret)
    /\ call' = [call EXCEPT !.ret = Some(_compute_lti(call.app))]
    /\ UNCHANGED <<pipeVars, rv>>

LtiNext == apply_compute_lti

SpecLti == LtiInit /\ [][LtiNext]_vars

----------------------------------------------------------------------------
(* tools.py: kyc_tool applied to any identity string *)

\* beginnings of identity strings: the three prefixes in several cases, their
\* proper prefixes, near misses and other letters
KycHeads ==
    { <<>>, <<"x">>, <<"X">>, <<"a">>, <<"t">>, <<"f">>,
      <<"t", "e", "s">>, <<"t", "e", "x", "t">>, <<"t", "e", "s", "t">>,
      <<"T", "e", "s", "t">>, <<"T", "E", "S", "T">>, <<"f", "a", "k">>,
      <<"f", "a", "k", "e">>, <<"F", "a", "K", "e">>, <<"A", "l">> }

\* what follows the beginning
KycTails ==
    { <<>>, <<"x">>, <<"t", "e", "s", "t">>, <<"u", "s", "e", "r", "4", "2">> }

KycIds == {h \o t : h \in KycHeads, t \in KycTails}

KycInit ==
    /\ PipelineIdle
    /\ rv = RvIdle
    /\ call \in [fn : {"kyc_tool"}, customer_id : KycIds, ret : {None}]

apply_kyc_tool ==
    /\ call.fn = "kyc_tool"
    /\ IsNone(call.ret)
    /\ call' = [call EXCEPT !.ret = Some(kyc_tool(call.customer_id))]
    /\ UNCHANGED <<pipeVars, rv>>

KycNext == apply_kyc_tool

SpecKyc == KycInit /\ [][KycNext]_vars

----------------------------------------------------------------------------
(* Properties of review_application *)

CardDecisions == {"Approve", "Reject", "Flag"}

\* C12: the decision of the card review_application returns is Approve, Reject
\* or Flag on every path (compliance unavailable, model output unparseable,
\* model output parsed, decision call raised), whatever decision strings the
\* compliance service and the model return.
C12_CardDecisionClosed ==
    rv.pc = "done" => Val(rv.output).decision \in CardDecisions

\* C14: a tag is in the used_tools of the card review_application returns only
\* if the call of that source succeeded in the run, on every path, the
\* compliance-unavailable path included.
C14_ToolsOnlySucceeded ==
    rv.pc = "done" =>
       \A i \in DOMAIN Val(rv.output).used_tools :
          LET entry == Val(rv.output).used_tools[i]
          IN  entry.t = "str" /\ entry.v \in rv.succeeded

\* the attempts of one collaborator call once it has returned or raised
FinishedLogs == {<<"ok">>, <<"raised", "ok">>, <<"raised", "raised">>}

\* the attempts of a call that is still in its loop
RunningLogs == {<<>>, <<"raised">>}

\* C15: _call_compliance and _call_customer make at most two attempts: a call
\* ends at its first success, a first failure is followed by a second attempt
\* before the call ends, and two failures are raised to review_application,
\* which returns the compliance-unavailable card or notes that customer
\* information is unavailable.
C15_BoundedRetry ==
    rv.pc # "idle" =>
       LET pastCustomer == rv.pc \in {"similar", "decide", "detail"}
                              \/ (rv.pc = "done" /\ ~IsNone(rv.card))
       IN  /\ rv.compliance_calls = Len(rv.compliance_log)
           /\ rv.customer_calls = Len(rv.customer_log)
           /\ rv.compliance_calls <= 2
           /\ rv.customer_calls <= 2
           /\ rv.pc = "compliance" => rv.compliance_log \in RunningLogs
           /\ rv.pc # "compliance" => rv.compliance_log \in FinishedLogs
           /\ rv.compliance_log = <<"raised", "raised">>
                 <=> (rv.pc = "done" /\ rv.output = Some(ComplianceUnavailableCard)
                        /\ IsNone(rv.card) /\ rv.customer_log = <<>>)
           /\ rv.pc = "customer" => rv.customer_log \in RunningLogs
           /\ pastCustomer => rv.customer_log \in FinishedLogs
           /\ pastCustomer =>
                 (rv.customer_log = <<"raised", "raised">>
                     <=> rv.customer = CustomerUnavailable)

\* the compliance call succeeded at its second attempt and both attempts of
\* the customer call failed
C15_Witness ==
    /\ rv.pc = "done"
    /\ rv.compliance_log = <<"raised", "ok">>
    /\ rv.customer_log = <<"raised", "raised">>
    /\ rv.customer = CustomerUnavailable

\* C18: the detailed explanation of the returned card is a non-empty text of
\* at most 800 characters, whether the explanation call answers a usable
\* text, an empty or fence-only text, or raises, and whatever short reason
\* the compliance result carries.
C18_DetailedReasonBounded ==
    rv.pc = "done" =>
       CharLen(Val(rv.output).reason_detailed) \in 1..DetailLimit

\* C19: _compute_lti returns None, shown as N/A, when income is 0, missing or
\* negative; otherwise it returns the thousandth nearest to amount / income
\* (income 50000 and amount 20000 give 0.4).  No input divides by zero.
C19_LtiComputable ==
    (call.fn = "_compute_lti" /\ ~IsNone(call.ret)) =>
       LET inc == IF "income" \in DOMAIN call.app THEN call.app.income ELSE 0
           amt == IF "loan_amount" \in DOMAIN call.app THEN call.app.loan_amount ELSE 0
           lti == Val(call.ret)
       IN  /\ inc <= 0 => (IsNone(lti) /\ LtiStr(lti) = "N/A")
           /\ inc > 0 =>
                 /\ ~IsNone(lti)
                 /\ 2 * (1000 * amt - Val(lti) * inc) <= inc
                 /\ 2 * (Val(lti) * inc - 1000 * amt) <= inc
           /\ (inc = 50000 /\ amt = 20000) => (lti = Some(400) /\ LtiStr(lti) = "40%")

\* an application with income 0 and a positive amount was given and the ratio
\* came back as not computable
C19_Witness ==
    /\ call.fn = "_compute_lti"
    /\ call.app = [income |-> 0, loan_amount |-> 20000]
    /\ call.ret = Some(None)

\* the identity string s begins with the letters of w in either case; w is a
\* sequence of pairs <<lower, upper>>
BeginsWith(s, w) ==
    /\ Len(s) >= Len(w)
    /\ \A i \in DOMAIN w : s[i] = w[i][1] \/ s[i] = w[i][2]

\* C20: kyc_tool returns kyc_verified false and pep_match true exactly for the
\* identity strings that begin, in any case, with x, test or fake; for every
\* other string it returns kyc_verified true and pep_match false.  doc_expired
\* is false and the identity string is returned unchanged in both cases.
C20_KycFlagsPrefixes ==
    (call.fn = "kyc_tool" /\ ~IsNone(call.ret)) =>
       LET s == call.customer_id
           r == Val(call.ret)
           flag == \/ BeginsWith(s, << <<"x", "X">> >>)
                   \/ BeginsWith(s, << <<"t", "T">>, <<"e", "E">>, <<"s", "S">>, <<"t", "T">> >>)
                   \/ BeginsWith(s, << <<"f", "F">>, <<"a", "A">>, <<"k", "K">>, <<"e", "E">> >>)
       IN  /\ r.pep_match = flag
           /\ r.kyc_verified = ~flag
           /\ r.doc_expired = FALSE
           /\ r.customer_id = s

\* the identity string "Testuser42" was checked and flagged
C20_Witness ==
    /\ call.fn = "kyc_tool"
    /\ call.customer_id = <<"T", "e", "s", "t", "u", "s", "e", "r", "4", "2">>
    /\ ~IsNone(call.ret)
    /\ Val(call.ret).pep_match
    /\ ~Val(call.ret).kyc_verified

----------------------------------------------------------------------------
(* End to end: rule engine, lookups and guard *)

\* the applicant name begins with x, test or fake in either case
FlaggedName(name) ==
    \/ BeginsWith(name, << <<"x", "X">> >>)
    \/ BeginsWith(name, << <<"t", "T">>, <<"e", "E">>, <<"s", "S">>, <<"t", "T">> >>)
    \/ BeginsWith(name, << <<"f", "F">>, <<"a", "A">>, <<"k", "K">>, <<"e", "E">> >>)

\* C23: when a run of the graph has gone through the guard, its decision is
\* approve only if the baseline decision is approve, the identity lookup
\* returned a result that is verified with no PEP match, the credit score is
\* at least 520 and the loan amount is at most 10 times the income.  A run
\* whose identity lookup failed or whose applicant name begins with x, test
\* or fake does not end in approve; the decision differs from the baseline
\* only when the baseline is approve and the decision manual_review; and a
\* 200 response carries that decision.
C23_ApproveOnlyIfAllClear ==
    (pc \in {"END", "done"} /\ trace = Stages) =>
       /\ ~IsNone(decision)
       /\ ~IsNone(baseline)
       /\ decision = Some("approve") =>
             /\ Val(baseline).decision = "approve"
             /\ ~IsNone(kyc)
             /\ Val(kyc).kyc_verified
             /\ ~Val(kyc).pep_match
             /\ req.credit_score >= 520
             /\ req.loan_amount <= 10 * req.income
       /\ IsNone(kyc) => decision # Some("approve")
       /\ FlaggedName(req.name) => decision # Some("approve")
       /\ Val(decision) # Val(baseline).decision =>
             (Val(baseline).decision = "approve" /\ decision = Some("manual_review"))
       /\ (~IsNone(response) /\ Val(response).status = 200) =>
             Val(response).decision = Val(decision)

\* a run ended in approve for an applicant who asks for exactly 10 times the
\* income, and the response carries the approval
C23_Witness ==
    /\ pc = "done"
    /\ trace = Stages
    /\ req.name = <<"A", "l">>
    /\ req.income = 1
    /\ req.loan_amount = 10
    /\ decision = Some("approve")
    /\ ~IsNone(response)
    /\ Val(response).status = 200
    /\ Val(response).decision = "approve"

====
